---- MODULE Spec2Model ----
(***************************************************************************)
(* A model of src/src/pages/Index.tsx: the chess page of chess-ai-site.     *)
(* The component's React state (screen, board, selectedSquare,             *)
(* currentPlayer, difficulty, stats, moveCount, thinking), the pending     *)
(* setTimeout callbacks with the board their closure captured, the click   *)
(* handlers and the move rule isValidMove.                                  *)
(***************************************************************************)
EXTENDS Integers, Sequences, FiniteSets

VARIABLES
    screen,          \* useState<GameScreen>, line 48
    board,           \* useState<Board>, line 49
    selectedSquare,  \* useState<[number, number] | null>, line 50
    currentPlayer,   \* useState<PieceColor>, line 51
    difficulty,      \* useState, line 52
    stats,           \* useState<GameStats>, line 53
    moveCount,       \* useState(0), line 57
    thinking,        \* useState(false), line 58
    timers,          \* pending setTimeout callbacks, in the order they were scheduled
    games,           \* number of startNewGame calls so far (bounded by MaxGames)
    commits,         \* number of human moves committed so far (bounded by MaxCommits)
    probe            \* the rule probe: origin, the destinations isValidMove accepts,
                     \* and the destinations a move there and back restores

vars == <<screen, board, selectedSquare, currentPlayer, difficulty, stats,
          moveCount, thinking, timers, games, commits, probe>>

(***************************************************************************)
(* Bounds of the model.                                                    *)
(***************************************************************************)
MaxGames == 1

MaxCommits == 1

MaxFillers == 2

\* The largest number of finished games in the statistics an earlier run saved
MaxSaved == 1

(***************************************************************************)
(* Program constants.                                                      *)
(***************************************************************************)
BoardSize == 8

AIStartDelay == 300

AICallbackDelay == 500

WinDelay == 500

WhiteStartRow == 6

BlackStartRow == 1

(***************************************************************************)
(* Pieces and boards.                                                      *)
(***************************************************************************)
PieceType == {"king", "queen", "rook", "bishop", "knight", "pawn"}

PieceColor == {"white", "black"}

Null == [type |-> "none", color |-> "none"]

P(t, c) == [type |-> t, color |-> c]

Pieces == [type : PieceType, color : PieceColor]

Idx == 0..(BoardSize - 1)

Squares == Idx \X Idx

NoSquare == <<>>

Abs(x) == IF x < 0 THEN -x ELSE x

BackRank(c) ==
    [col \in Idx |->
        CASE col \in {0, 7} -> P("rook", c)
          [] col \in {1, 6} -> P("knight", c)
          [] col \in {2, 5} -> P("bishop", c)
          [] col = 3 -> P("queen", c)
          [] OTHER -> P("king", c)]

initialBoard ==
    [row \in Idx |->
        CASE row = 0 -> BackRank("black")
          [] row = 1 -> [col \in Idx |-> P("pawn", "black")]
          [] row = 6 -> [col \in Idx |-> P("pawn", "white")]
          [] row = 7 -> BackRank("white")
          [] OTHER -> [col \in Idx |-> Null]]

\* The levels of the three buttons of the menu (lines 258-283)
Levels == {"easy", "medium", "hard"}

EmptyBoard == [row \in Idx |-> [col \in Idx |-> Null]]

(***************************************************************************)
(* isValidMove, lines 64-153.  The board is the one of the render whose    *)
(* closure calls it, passed here as b.                                     *)
(***************************************************************************)
\* Mutant of StraightPathClear: the loops stop one square early
StraightPathClearShort(b, fromRow, fromCol, toRow, toCol) ==
    LET startR == IF fromRow < toRow THEN fromRow ELSE toRow
        endR   == IF fromRow < toRow THEN toRow ELSE fromRow
        startC == IF fromCol < toCol THEN fromCol ELSE toCol
        endC   == IF fromCol < toCol THEN toCol ELSE fromCol
    IN  IF fromRow = toRow
        THEN \A c \in (startC + 1)..(endC - 2) : b[fromRow][c] = Null
        ELSE \A r \in (startR + 1)..(endR - 2) : b[r][fromCol] = Null

\* lines 87-98 and 122-132: the row or the column strictly between the ends
StraightPathClear(b, fromRow, fromCol, toRow, toCol) ==
    LET startR == IF fromRow < toRow THEN fromRow ELSE toRow
        endR   == IF fromRow < toRow THEN toRow ELSE fromRow
        startC == IF fromCol < toCol THEN fromCol ELSE toCol
        endC   == IF fromCol < toCol THEN toCol ELSE fromCol
    IN  IF fromRow = toRow
        THEN \A c \in (startC + 1)..(endC - 1) : b[fromRow][c] = Null
        ELSE \A r \in (startR + 1)..(endR - 1) : b[r][fromCol] = Null

\* lines 110-115 and 137-141: the while loop walking the diagonal
RECURSIVE DiagonalWalk(_, _, _, _, _, _, _)
DiagonalWalk(b, r, c, toRow, toCol, rowDir, colDir) ==
    IF r # toRow /\ c # toCol
    THEN IF b[r][c] # Null
         THEN FALSE
         ELSE DiagonalWalk(b, r + rowDir, c + colDir, toRow, toCol, rowDir, colDir)
    ELSE TRUE

\* lines 107-115 and 134-141
DiagonalPathClear(b, fromRow, fromCol, toRow, toCol) ==
    LET rowDir == IF toRow > fromRow THEN 1 ELSE -1
        colDir == IF toCol > fromCol THEN 1 ELSE -1
    IN  DiagonalWalk(b, fromRow + rowDir, fromCol + colDir, toRow, toCol, rowDir, colDir)

\* Mutant of PawnMove: the two-step does not look at the square it passes
PawnMoveJumps(b, piece, targetPiece, fromRow, fromCol, toRow, toCol) ==
    LET direction == IF piece.color = "white" THEN -1 ELSE 1
        startRow  == IF piece.color = "white" THEN WhiteStartRow ELSE BlackStartRow
        colDiff   == Abs(toCol - fromCol)
    IN  \/ /\ toCol = fromCol
           /\ targetPiece = Null
           /\ \/ toRow = fromRow + direction
              \/ /\ fromRow = startRow
                 /\ toRow = fromRow + 2 * direction
        \/ /\ colDiff = 1
           /\ toRow = fromRow + direction
           /\ targetPiece # Null

\* lines 75-83
PawnMove(b, piece, targetPiece, fromRow, fromCol, toRow, toCol) ==
    LET direction == IF piece.color = "white" THEN -1 ELSE 1
        startRow  == IF piece.color = "white" THEN WhiteStartRow ELSE BlackStartRow
        colDiff   == Abs(toCol - fromCol)
    IN  \/ /\ toCol = fromCol
           /\ targetPiece = Null
           /\ \/ toRow = fromRow + direction
              \/ /\ fromRow = startRow
                 /\ toRow = fromRow + 2 * direction
                 /\ b[fromRow + direction][fromCol] = Null
        \/ /\ colDiff = 1
           /\ toRow = fromRow + direction
           /\ targetPiece # Null

\* lines 85-100
RookMove(b, fromRow, fromCol, toRow, toCol) ==
    /\ (fromRow = toRow \/ fromCol = toCol)
    /\ StraightPathClear(b, fromRow, fromCol, toRow, toCol)

\* lines 102-103
KnightMove(fromRow, fromCol, toRow, toCol) ==
    LET rowDiff == Abs(toRow - fromRow)
        colDiff == Abs(toCol - fromCol)
    IN  (rowDiff = 2 /\ colDiff = 1) \/ (rowDiff = 1 /\ colDiff = 2)

\* lines 105-117
BishopMove(b, fromRow, fromCol, toRow, toCol) ==
    /\ Abs(toRow - fromRow) = Abs(toCol - fromCol)
    /\ DiagonalPathClear(b, fromRow, fromCol, toRow, toCol)

\* Mutant of QueenMove: the diagonal path is not looked at
QueenMoveLeapsDiagonally(b, fromRow, fromCol, toRow, toCol) ==
    /\ (fromRow = toRow \/ fromCol = toCol
          \/ Abs(toRow - fromRow) = Abs(toCol - fromCol))
    /\ (fromRow = toRow \/ fromCol = toCol)
          => StraightPathClear(b, fromRow, fromCol, toRow, toCol)

\* lines 119-145
QueenMove(b, fromRow, fromCol, toRow, toCol) ==
    /\ (fromRow = toRow \/ fromCol = toCol
          \/ Abs(toRow - fromRow) = Abs(toCol - fromCol))
    /\ IF fromRow = toRow \/ fromCol = toCol
       THEN StraightPathClear(b, fromRow, fromCol, toRow, toCol)
       ELSE DiagonalPathClear(b, fromRow, fromCol, toRow, toCol)

\* Mutant of KingMove: one step along a row or a column only
KingMoveNoDiagonal(fromRow, fromCol, toRow, toCol) ==
    Abs(toRow - fromRow) + Abs(toCol - fromCol) <= 1

\* lines 147-148
KingMove(fromRow, fromCol, toRow, toCol) ==
    Abs(toRow - fromRow) <= 1 /\ Abs(toCol - fromCol) <= 1

\* Mutant of SameColorTarget: the test of line 69 is missing
SameColorTargetNever(piece, targetPiece) == FALSE

\* Mutant of SameColorTarget: a piece equal to the moving one is let through
SameColorTargetButEqual(piece, targetPiece) ==
    targetPiece # Null /\ targetPiece.color = piece.color /\ targetPiece # piece

\* line 69
SameColorTarget(piece, targetPiece) ==
    targetPiece # Null /\ targetPiece.color = piece.color

isValidMove(b, fromRow, fromCol, toRow, toCol) ==
    LET piece       == b[fromRow][fromCol]
        targetPiece == b[toRow][toCol]
    IN  IF piece = Null THEN FALSE
        ELSE IF SameColorTarget(piece, targetPiece) THEN FALSE
        ELSE CASE piece.type = "pawn" ->
                    PawnMove(b, piece, targetPiece, fromRow, fromCol, toRow, toCol)
               [] piece.type = "rook" -> RookMove(b, fromRow, fromCol, toRow, toCol)
               [] piece.type = "knight" -> KnightMove(fromRow, fromCol, toRow, toCol)
               [] piece.type = "bishop" -> BishopMove(b, fromRow, fromCol, toRow, toCol)
               [] piece.type = "queen" -> QueenMove(b, fromRow, fromCol, toRow, toCol)
               [] piece.type = "king" -> KingMove(fromRow, fromCol, toRow, toCol)
               [] OTHER -> FALSE

\* Mutant of ApplyMove: the origin is not emptied
ApplyMoveKeepsOrigin(b, fromRow, fromCol, toRow, toCol) ==
    [b EXCEPT ![toRow][toCol] = b[fromRow][fromCol]]

(***************************************************************************)
(* The board transition of lines 179-181 and 199-202: copy the board, put  *)
(* the origin's piece on the destination, then empty the origin.           *)
(***************************************************************************)
ApplyMove(b, fromRow, fromCol, toRow, toCol) ==
    LET placed == [b EXCEPT ![toRow][toCol] = b[fromRow][fromCol]]
    IN  [placed EXCEPT ![fromRow][fromCol] = Null]

\* Mutant of aiMoves: the color of the piece on the origin is not tested
aiMovesAnyColor(b) ==
    UNION {{<<from[1], from[2], to[1], to[2]>> :
               to \in {t \in Squares : isValidMove(b, from[1], from[2], t[1], t[2])}} :
           from \in {o \in Squares : b[o[1]][o[2]] # Null}}

\* lines 158-173: every (origin, destination) with a black piece on the origin
aiMoves(b) ==
    UNION {{<<from[1], from[2], to[1], to[2]>> :
               to \in {t \in Squares : isValidMove(b, from[1], from[2], t[1], t[2])}} :
           from \in {o \in Squares : /\ b[o[1]][o[2]] # Null
                                      /\ b[o[1]][o[2]].color = "black"}}

(***************************************************************************)
(* Pending timers.  A timer scheduled earlier with a delay that is not     *)
(* longer expires first, so entry i can run only when no earlier entry has *)
(* a delay <= its own.                                                     *)
(***************************************************************************)
Delay(t) ==
    CASE t.kind = "makeAIMove" -> AIStartDelay
      [] t.kind = "aiCallback" -> AICallbackDelay
      [] OTHER -> WinDelay

CanFire(i) ==
    /\ i \in 1..Len(timers)
    /\ \A j \in 1..(i - 1) : Delay(timers[j]) > Delay(timers[i])

Remove(seq, i) == SubSeq(seq, 1, i - 1) \o SubSeq(seq, i + 1, Len(seq))

ProbeIdle == [from |-> NoSquare, done |-> FALSE, valid |-> {}, restored |-> {}]

(***************************************************************************)
(* Positions of a game in progress.  The callback of makeAIMove commits    *)
(* the board of its closure with one black piece relocated (lines 179-183),*)
(* so the board of a game at the human's turn is initialBoard with a       *)
(* sequence of black moves applied, each valid on the board before it.     *)
(* Replay applies such a sequence; an invalid move yields EmptyBoard.      *)
(***************************************************************************)
\* One automated move applied to b
ReplayMove(b, m) ==
    IF b[m[1]][m[2]] # Null /\ b[m[1]][m[2]].color = "black"
       /\ isValidMove(b, m[1], m[2], m[3], m[4])
    THEN ApplyMove(b, m[1], m[2], m[3], m[4])
    ELSE EmptyBoard

\* The moves lo..hi of a sequence applied in order, the first half before
\* the second
RECURSIVE ReplayRange(_, _, _, _)
ReplayRange(b, moves, lo, hi) ==
    IF lo > hi THEN b
    ELSE IF lo = hi THEN ReplayMove(b, moves[lo])
    ELSE LET mid == (lo + hi) \div 2
             half == ReplayRange(b, moves, lo, mid)
         IN  IF half = EmptyBoard THEN EmptyBoard
             ELSE ReplayRange(half, moves, mid + 1, hi)

Replay(b, moves) == ReplayRange(b, moves, 1, Len(moves))

\* Nine automated moves bring the black knight of b8 to (5,5), next to the
\* white king, and the black king to (5,4), next to the white pawns.
RaidMoves ==
    <<
       <<0, 1, 2, 2>>, <<2, 2, 3, 4>>, <<3, 4, 5, 5>>, <<1, 4, 3, 4>>,
       <<0, 4, 1, 4>>, <<1, 4, 2, 3>>, <<2, 3, 3, 2>>, <<3, 2, 4, 3>>,
       <<4, 3, 5, 4>>
    >>

\* 106 automated moves after which no black piece has a valid move, while
\* the white pawn of (6,5) still has one.
BlockadeMoves ==
    <<
       <<1, 0, 3, 0>>, <<1, 1, 3, 1>>, <<1, 2, 3, 2>>, <<1, 3, 3, 3>>,
       <<1, 5, 3, 5>>, <<3, 5, 4, 5>>, <<4, 5, 5, 5>>, <<5, 5, 6, 4>>,
       <<0, 6, 2, 5>>, <<2, 5, 1, 3>>, <<1, 3, 3, 4>>, <<3, 4, 5, 3>>,
       <<5, 3, 7, 4>>, <<7, 4, 5, 3>>, <<5, 3, 3, 4>>, <<3, 4, 4, 2>>,
       <<4, 2, 5, 4>>, <<5, 4, 7, 5>>, <<7, 5, 5, 4>>, <<5, 4, 6, 6>>,
       <<6, 6, 4, 5>>, <<4, 5, 5, 7>>, <<5, 7, 7, 6>>, <<7, 6, 5, 5>>,
       <<5, 5, 3, 6>>, <<3, 6, 4, 4>>, <<4, 4, 5, 6>>, <<5, 6, 7, 7>>,
       <<7, 7, 5, 6>>, <<5, 6, 7, 5>>, <<7, 5, 6, 7>>, <<6, 7, 5, 5>>,
       <<5, 5, 6, 3>>, <<6, 3, 4, 2>>, <<4, 2, 5, 4>>, <<5, 4, 7, 3>>,
       <<7, 3, 5, 2>>, <<5, 2, 4, 4>>, <<4, 4, 6, 3>>, <<6, 3, 5, 1>>,
       <<5, 1, 7, 2>>, <<7, 2, 5, 1>>, <<5, 1, 4, 3>>, <<4, 3, 6, 2>>,
       <<6, 2, 4, 1>>, <<4, 1, 5, 3>>, <<5, 3, 6, 1>>, <<6, 1, 4, 0>>,
       <<4, 0, 5, 2>>, <<5, 2, 7, 1>>, <<7, 1, 5, 0>>, <<5, 0, 6, 2>>,
       <<6, 2, 7, 0>>, <<7, 0, 5, 1>>, <<5, 1, 7, 2>>, <<7, 2, 6, 0>>,
       <<6, 0, 5, 2>>, <<5, 2, 7, 1>>, <<6, 4, 7, 4>>, <<1, 4, 3, 4>>,
       <<3, 4, 4, 4>>, <<4, 4, 5, 4>>, <<5, 4, 6, 4>>, <<1, 6, 3, 6>>,
       <<3, 6, 4, 6>>, <<4, 6, 5, 6>>, <<5, 6, 6, 6>>, <<6, 6, 7, 6>>,
       <<1, 7, 3, 7>>, <<3, 7, 4, 7>>, <<4, 7, 5, 7>>, <<5, 7, 6, 7>>,
       <<6, 7, 7, 7>>, <<0, 1, 2, 0>>, <<2, 0, 4, 1>>, <<4, 1, 6, 2>>,
       <<6, 2, 7, 0>>, <<0, 3, 3, 6>>, <<3, 6, 7, 2>>, <<0, 4, 1, 3>>,
       <<1, 3, 2, 3>>, <<2, 3, 3, 4>>, <<3, 4, 4, 3>>, <<4, 3, 5, 2>>,
       <<5, 2, 6, 2>>, <<6, 2, 7, 3>>, <<0, 0, 1, 0>>, <<1, 0, 1, 4>>,
       <<1, 4, 4, 4>>, <<4, 4, 4, 0>>, <<4, 0, 6, 0>>, <<0, 5, 1, 6>>,
       <<1, 6, 6, 1>>, <<0, 2, 3, 5>>, <<3, 5, 6, 2>>, <<0, 7, 4, 7>>,
       <<4, 7, 4, 3>>, <<4, 3, 6, 3>>, <<3, 0, 4, 0>>, <<4, 0, 5, 0>>,
       <<3, 1, 4, 1>>, <<4, 1, 5, 1>>, <<3, 2, 4, 2>>, <<4, 2, 5, 2>>,
       <<3, 3, 4, 3>>, <<4, 3, 5, 3>>
    >>

RaidBoard == Replay(initialBoard, RaidMoves)

BlockadeBoard == Replay(initialBoard, BlockadeMoves)

\* Lines 53-56: the statistics start from the value saved in localStorage
\* by the effect of lines 60-62, or from zero when nothing is saved
SavedStats ==
    {s \in [wins : 0..MaxSaved, losses : 0..MaxSaved, draws : 0..MaxSaved] :
        s.wins + s.losses + s.draws <= MaxSaved}

\* The state after construction (lines 48-58)
Constructed ==
    /\ screen = "menu"
    /\ board = initialBoard
    /\ moveCount = 0
    /\ difficulty = "medium"
    /\ stats \in SavedStats

\* A game in progress on board b after the moves that led to it, one human
\* move before each automated one, the human to move: a game started with
\* the middle level button by a component constructed with nothing saved
InProgress(b, moves) ==
    /\ screen = "game"
    /\ board = b
    /\ moveCount = 2 * Len(moves)
    /\ difficulty = "medium"
    /\ stats = [wins |-> 0, losses |-> 0, draws |-> 0]

Init ==
    /\ \/ Constructed
       \/ InProgress(RaidBoard, RaidMoves)
       \/ InProgress(BlockadeBoard, BlockadeMoves)
    /\ selectedSquare = NoSquare
    /\ currentPlayer = "white"
    /\ thinking = FALSE
    /\ timers = <<>>
    /\ games = 0
    /\ commits = 0
    /\ probe = ProbeIdle

(***************************************************************************)
(* handleSquareClick, lines 192-231.  The squares are rendered, and can be *)
(* clicked, on the game screen only (line 442).                            *)
(***************************************************************************)
\* lines 198-216: the accepted move
CommitHumanMove(row, col) ==
    LET selectedRow   == selectedSquare[1]
        selectedCol   == selectedSquare[2]
        capturedPiece == board[row][col]
    IN  /\ commits < MaxCommits
        /\ board' = ApplyMove(board, selectedRow, selectedCol, row, col)
        /\ selectedSquare' = NoSquare
        /\ moveCount' = moveCount + 1
        /\ currentPlayer' = "black"
        /\ timers' = Append(timers,
                        IF capturedPiece # Null /\ capturedPiece.type = "king"
                        THEN [kind |-> "win"]
                        ELSE [kind |-> "makeAIMove", board |-> board])
        /\ commits' = commits + 1
        /\ UNCHANGED <<screen, difficulty, stats, thinking, games, probe>>

\* lines 218-223 and 226-229: select the clicked square or clear the selection
SelectSquare(row, col) ==
    LET clickedPiece == board[row][col]
    IN  /\ selectedSquare' =
              IF clickedPiece # Null /\ clickedPiece.color = currentPlayer
              THEN <<row, col>>
              ELSE IF selectedSquare # NoSquare THEN NoSquare ELSE selectedSquare
        /\ UNCHANGED <<screen, board, currentPlayer, difficulty, stats, moveCount,
                       thinking, timers, games, commits, probe>>

HandleSquareClick(row, col) ==
    /\ screen = "game"
    /\ IF currentPlayer # "white" \/ thinking
       THEN UNCHANGED vars
       ELSE IF selectedSquare # NoSquare
                /\ isValidMove(board, selectedSquare[1], selectedSquare[2], row, col)
            THEN CommitHumanMove(row, col)
            ELSE SelectSquare(row, col)

(***************************************************************************)
(* makeAIMove, lines 155-190, run by the 300 ms timer of line 215: it sets *)
(* thinking and schedules the 500 ms callback, whose closure holds the     *)
(* board of the render that scheduled makeAIMove.                          *)
(***************************************************************************)
MakeAIMove(i) ==
    /\ CanFire(i)
    /\ timers[i].kind = "makeAIMove"
    /\ thinking' = TRUE
    /\ timers' = Append(Remove(timers, i),
                        [kind |-> "aiCallback", board |-> timers[i].board])
    /\ UNCHANGED <<screen, board, selectedSquare, currentPlayer, difficulty, stats,
                   moveCount, games, commits, probe>>

\* Mutant of AICallback: setThinking(false) moved inside the if of line 175
AICallbackKeepsThinking(i) ==
    /\ CanFire(i)
    /\ timers[i].kind = "aiCallback"
    /\ LET b == timers[i].board
       IN  IF aiMoves(b) # {}
           THEN /\ \E randomMove \in aiMoves(b) :
                      /\ board' = ApplyMove(b, randomMove[1], randomMove[2],
                                            randomMove[3], randomMove[4])
                      /\ moveCount' = moveCount + 1
                      /\ currentPlayer' = "white"
                /\ thinking' = FALSE
           ELSE UNCHANGED <<board, moveCount, currentPlayer, thinking>>
    /\ timers' = Remove(timers, i)
    /\ UNCHANGED <<screen, selectedSquare, difficulty, stats, games, commits, probe>>

\* lines 157-189: the callback
AICallback(i) ==
    /\ CanFire(i)
    /\ timers[i].kind = "aiCallback"
    /\ timers' = Remove(timers, i)
    /\ LET moves == aiMoves(timers[i].board)
       IN  IF moves # {}
           THEN \E randomMove \in moves :
                   /\ board' = ApplyMove(timers[i].board, randomMove[1], randomMove[2],
                                         randomMove[3], randomMove[4])
                   /\ moveCount' = moveCount + 1
                   /\ currentPlayer' = "white"
           ELSE UNCHANGED <<board, moveCount, currentPlayer>>
    /\ thinking' = FALSE
    /\ UNCHANGED <<screen, selectedSquare, difficulty, stats, games, commits, probe>>

\* lines 210-213: the callback scheduled when the human captured a king
WinCallback(i) ==
    /\ CanFire(i)
    /\ timers[i].kind = "win"
    /\ stats' = [stats EXCEPT !.wins = @ + 1]
    /\ screen' = "stats"
    /\ timers' = Remove(timers, i)
    /\ UNCHANGED <<board, selectedSquare, currentPlayer, difficulty, moveCount,
                   thinking, games, commits, probe>>

(***************************************************************************)
(* startNewGame, lines 233-240, and the buttons of the three screens.      *)
(***************************************************************************)
startNewGame(newDifficulty) ==
    /\ games < MaxGames
    /\ difficulty' = newDifficulty
    /\ board' = initialBoard
    /\ selectedSquare' = NoSquare
    /\ currentPlayer' = "white"
    /\ moveCount' = 0
    /\ screen' = "game"
    /\ games' = games + 1
    /\ UNCHANGED <<stats, thinking, timers, commits, probe>>

\* lines 258-283: the three level buttons of the menu
MenuNewGame ==
    /\ screen = "menu"
    /\ \E d \in Levels : startNewGame(d)

\* lines 423-431: the new-game button of the stats screen
StatsNewGame ==
    /\ screen = "stats"
    /\ startNewGame("medium")

SetScreen(s) ==
    /\ screen' = s
    /\ UNCHANGED <<board, selectedSquare, currentPlayer, difficulty, stats, moveCount,
                   thinking, timers, games, commits, probe>>

\* line 289
MenuStatsButton == screen = "menu" /\ SetScreen("stats")

\* line 304
GameMenuButton == screen = "game" /\ SetScreen("menu")

\* line 316
GameStatsButton == screen = "game" /\ SetScreen("stats")

\* line 417
StatsMenuButton == screen = "stats" /\ SetScreen("menu")

\* lines 359-368
Surrender ==
    /\ screen = "game"
    /\ stats' = [stats EXCEPT !.losses = @ + 1]
    /\ screen' = "menu"
    /\ UNCHANGED <<board, selectedSquare, currentPlayer, difficulty, moveCount,
                   thinking, timers, games, commits, probe>>

\* A click on one of the squares of the board (line 338); the buttons of the
\* squares are disabled while thinking is set (line 339)
ClickSquare ==
    /\ ~thinking
    /\ \E row \in Idx, col \in Idx : HandleSquareClick(row, col)

\* The timer callbacks, run by the event loop when their delay has passed
RunMakeAIMove == \E i \in 1..Len(timers) : MakeAIMove(i)

RunAICallback == \E i \in 1..Len(timers) : AICallback(i)

RunWinCallback == \E i \in 1..Len(timers) : WinCallback(i)

TimerFires == RunMakeAIMove \/ RunAICallback \/ RunWinCallback

Next ==
    \/ ClickSquare
    \/ RunMakeAIMove
    \/ RunAICallback
    \/ RunWinCallback
    \/ MenuNewGame
    \/ StatsNewGame
    \/ MenuStatsButton
    \/ GameMenuButton
    \/ GameStatsButton
    \/ StatsMenuButton
    \/ Surrender

Spec == Init /\ [][Next]_vars

(***************************************************************************)
(* The rule probe: isValidMove applied to boards drawn from a bounded set. *)
(* A scene is an empty board with one piece of any kind and color on an    *)
(* origin, and at most MaxFillers other pieces within two squares of it;   *)
(* the probe asks isValidMove for every destination of the board, as the   *)
(* loops of lines 164-170 do for one origin.                               *)
(***************************************************************************)
ProbeOrigins == {<<6, 3>>, <<1, 4>>, <<3, 3>>}

Fillers == {P("knight", "white"), P("rook", "black")}

Window(o) ==
    {s \in Squares : s # o /\ Abs(s[1] - o[1]) <= 2 /\ Abs(s[2] - o[2]) <= 2}

Put(b, s, piece) == [b EXCEPT ![s[1]][s[2]] = piece]

\* Squares in reading order, the order in which fillers are laid down
Rank(s) == s[1] * BoardSize + s[2]

RECURSIVE PutAll(_, _, _)
PutAll(b, q, n) ==
    IF n = 0 THEN b ELSE Put(PutAll(b, q, n - 1), q[n][1], q[n][2])

\* The board with piece on o and the n fillers of q, each <<square, filler>>
Scene(o, piece, q, n) == PutAll(Put(EmptyBoard, o, piece), q, n)

\* The scenario of the specification: a white king on (7,4), a black rook on (7,0)
KingRookBoard ==
    Put(Put(EmptyBoard, <<7, 4>>, P("king", "white")), <<7, 0>>, P("rook", "black"))

ValidDestinations(b, from) ==
    {to \in Squares : isValidMove(b, from[1], from[2], to[1], to[2])}

InitRules ==
    /\ \/ \E o \in ProbeOrigins, piece \in Pieces :
             /\ \E n \in 0..MaxFillers :
                    \E q \in [1..n -> Window(o) \X Fillers] :
                       /\ \A i \in 1..(n - 1) : Rank(q[i][1]) < Rank(q[i + 1][1])
                       /\ board = Scene(o, piece, q, n)
             /\ probe = [ProbeIdle EXCEPT !.from = o]
       \/ /\ board = KingRookBoard
          /\ probe = [ProbeIdle EXCEPT !.from = <<7, 4>>]
    /\ screen = "menu"
    /\ selectedSquare = NoSquare
    /\ currentPlayer = "white"
    /\ difficulty = "medium"
    /\ stats = [wins |-> 0, losses |-> 0, draws |-> 0]
    /\ moveCount = 0
    /\ thinking = FALSE
    /\ timers = <<>>
    /\ games = 0
    /\ commits = 0

\* The destinations for which the board transition, applied from the origin
\* and then back to it, gives the board it started from
RestoredDestinations(b, from) ==
    {to \in Squares :
        ApplyMove(ApplyMove(b, from[1], from[2], to[1], to[2]),
                  to[1], to[2], from[1], from[2]) = b}

ProbeAll ==
    /\ ~probe.done
    /\ probe' = [probe EXCEPT !.done = TRUE,
                              !.valid = ValidDestinations(board, probe.from),
                              !.restored = RestoredDestinations(board, probe.from)]
    /\ UNCHANGED <<screen, board, selectedSquare, currentPlayer, difficulty, stats,
                   moveCount, thinking, timers, games, commits>>

NextRules == ProbeAll

SpecRules == InitRules /\ [][NextRules]_vars

(***************************************************************************)
(* Properties of isValidMove, checked under SpecRules.                     *)
(***************************************************************************)
At(b, s) == b[s[1]][s[2]]

ProbePiece == At(board, probe.from)

\* The squares strictly between two squares of one row, column or diagonal
Between(o, d) ==
    IF o[1] = d[1] \/ o[2] = d[2] \/ Abs(d[1] - o[1]) = Abs(d[2] - o[2])
    THEN {s \in Squares :
            /\ s # o /\ s # d
            /\ (s[1] - o[1]) * (d[2] - o[2]) = (s[2] - o[2]) * (d[1] - o[1])
            /\ (s[1] - o[1]) * (s[1] - d[1]) <= 0
            /\ (s[2] - o[2]) * (s[2] - d[2]) <= 0}
    ELSE {}

\* C2: isValidMove accepts no destination that holds a piece of the color of
\* the piece on the origin, whatever the kind of the piece and the board.
C2_NoSameColorDestination ==
    probe.done =>
        \A to \in probe.valid :
            At(board, to) = Null \/ At(board, to).color # ProbePiece.color

\* A destination the piece could move to is refused because a piece of its
\* own color stands there.
C2_Witness ==
    /\ probe.done
    /\ \E to \in Squares \ {probe.from} :
          /\ At(board, to) # Null
          /\ At(board, to).color = ProbePiece.color
          /\ to \notin probe.valid
          /\ to \in ValidDestinations(Put(board, to, Null), probe.from)

\* C3: for a rook, a bishop or a queen, a destination with an occupied square
\* strictly between it and the origin, along their row, column or diagonal,
\* is refused, whatever stands on the destination.
C3_BlockedPathRefused ==
    (probe.done /\ ProbePiece.type \in {"rook", "bishop", "queen"}) =>
        \A to \in Squares :
            (\E s \in Between(probe.from, to) : At(board, s) # Null)
                => to \notin probe.valid

\* A queen is cut off from an opposing piece two squares away by a piece
\* between them.
C3_Witness ==
    /\ probe.done
    /\ ProbePiece.type = "queen"
    /\ \E to \in Squares :
          /\ At(board, to) # Null
          /\ At(board, to).color # ProbePiece.color
          /\ \E s \in Between(probe.from, to) : At(board, s) # Null
          /\ to \notin probe.valid

\* The pawn rule as the specification states it
PawnRule(b, from, to) ==
    LET pawn    == At(b, from)
        forward == IF pawn.color = "white" THEN -1 ELSE 1
        home    == IF pawn.color = "white" THEN 6 ELSE 1
    IN  \/ /\ to[2] = from[2]
           /\ to[1] = from[1] + forward
           /\ At(b, to) = Null
        \/ /\ to[2] = from[2]
           /\ to[1] = from[1] + 2 * forward
           /\ from[1] = home
           /\ At(b, <<from[1] + forward, from[2]>>) = Null
           /\ At(b, to) = Null
        \/ /\ Abs(to[2] - from[2]) = 1
           /\ to[1] = from[1] + forward
           /\ At(b, to) # Null
           /\ At(b, to).color # pawn.color

\* C4: for a pawn, isValidMove accepts exactly the one-step advance onto an
\* empty square, the two-step advance from the starting row over an empty
\* square onto an empty square, and the diagonal step onto an opposing piece.
C4_PawnExactlyTheRule ==
    (probe.done /\ ProbePiece.type = "pawn") =>
        probe.valid = {to \in Squares : PawnRule(board, probe.from, to)}

\* A pawn on its starting row with the square in front occupied and the
\* square behind that one empty: the two-step is refused.
C4_Witness ==
    /\ probe.done
    /\ ProbePiece = P("pawn", "white")
    /\ probe.from = <<6, 3>>
    /\ At(board, <<5, 3>>) # Null
    /\ At(board, <<4, 3>>) = Null
    /\ <<4, 3>> \notin probe.valid

\* C9 as stated: on KingRookBoard the king may move to (7,5), (6,4) and (6,5)
\* and may not move to (7,3).
C9_AsStated ==
    (probe.done /\ board = KingRookBoard) =>
        /\ {<<7, 5>>, <<6, 4>>, <<6, 5>>} \subseteq probe.valid
        /\ <<7, 3>> \notin probe.valid

\* C9, amended: on KingRookBoard the king may move to (7,5), (6,4), (6,5) and
\* also to (7,3), which is adjacent to (7,4); every destination more than one
\* row or one column away is refused.
C9_KingScenario ==
    (probe.done /\ board = KingRookBoard) =>
        /\ {<<7, 5>>, <<6, 4>>, <<6, 5>>, <<7, 3>>} \subseteq probe.valid
        /\ \A to \in Squares :
              (Abs(to[1] - 7) > 1 \/ Abs(to[2] - 4) > 1) => to \notin probe.valid

C9_Witness ==
    /\ probe.done
    /\ board = KingRookBoard
    /\ probe.from = <<7, 4>>
    /\ <<7, 3>> \in probe.valid

\* C10 as stated: a rook or a queen may move onto its own square, the other
\* kinds may not.
C10_AsStated ==
    probe.done =>
        IF ProbePiece.type \in {"rook", "queen"}
        THEN probe.from \in probe.valid
        ELSE probe.from \notin probe.valid

\* C10, amended: for every kind of piece, the rook and the queen included,
\* isValidMove refuses the move of a piece onto its own square.
C10_NullMoveRefused ==
    probe.done => probe.from \notin probe.valid

\* A rook that has valid moves and is refused its own square
C10_Witness ==
    /\ probe.done
    /\ ProbePiece.type = "rook"
    /\ probe.valid # {}
    /\ probe.from \notin probe.valid

\* C11: on every board, with a piece on the origin, the board transition
\* applied from the origin to an empty destination and then back gives the
\* board it started from, square for square; with an occupied destination
\* it does not.
C11_RoundTripRestores ==
    probe.done =>
        \A to \in Squares :
            to \in probe.restored <=> At(board, to) = Null

\* A round trip to an empty square restored the board, and one to the square
\* of another piece did not.
C11_Witness ==
    /\ probe.done
    /\ \E to \in Squares : At(board, to) = Null /\ to \in probe.restored
    /\ \E to \in Squares \ {probe.from} :
          At(board, to) # Null /\ to \notin probe.restored

\* The board with the piece on the origin replaced by one of another kind
\* and the same color
Recast(b, from, kind) == Put(b, from, P(kind, At(b, from).color))

\* C12: with a queen on the origin, isValidMove accepts exactly the
\* destinations it accepts with a rook of the same color on the origin or
\* with a bishop of the same color on the origin, the other squares alike.
C12_QueenIsRookOrBishop ==
    (probe.done /\ ProbePiece.type = "queen") =>
        probe.valid = ValidDestinations(Recast(board, probe.from, "rook"), probe.from)
                        \cup
                      ValidDestinations(Recast(board, probe.from, "bishop"), probe.from)

\* A queen that has a rook's destination and a bishop's, and is cut off from
\* a diagonal destination by a piece in between
C12_Witness ==
    /\ probe.done
    /\ ProbePiece.type = "queen"
    /\ \E to \in probe.valid : to[1] = probe.from[1]
    /\ \E to \in probe.valid : to[1] # probe.from[1] /\ to[2] # probe.from[2]
    /\ \E to \in Squares \ probe.valid :
          /\ Abs(to[1] - probe.from[1]) = Abs(to[2] - probe.from[2])
          /\ At(board, to) = Null
          /\ \E mid \in Between(probe.from, to) : At(board, mid) # Null

\* The timers fire: a pending timer callback is eventually run
SpecLive == Init /\ [][Next]_vars /\ WF_vars(TimerFires)

(***************************************************************************)
(* Properties of the turn controller, checked under Spec and SpecLive.     *)
(***************************************************************************)
Moves == Idx \X Idx \X Idx \X Idx

BlackOrigin(b, m) == b[m[1]][m[2]] # Null /\ b[m[1]][m[2]].color = "black"

KingCount(b, c) == Cardinality({s \in Squares : At(b, s) = P("king", c)})

\* An automated turn is under way: its 300 ms timer or its callback is pending
AITurnPending ==
    \E i \in 1..Len(timers) : timers[i].kind \in {"makeAIMove", "aiCallback"}

\* C1: the callback of makeAIMove commits the board it enumerated with one
\* move applied whose origin holds a black piece and which isValidMove accepts
\* on that board; when no such move exists it leaves board, moveCount and
\* currentPlayer unchanged.
C1_AIMoveIsEnumerated ==
    [][\A i \in 1..Len(timers) :
          (Len(timers') = Len(timers) - 1 /\ AICallback(i)) =>
              LET b == timers[i].board
              IN  \/ \E m \in Moves :
                        /\ BlackOrigin(b, m)
                        /\ isValidMove(b, m[1], m[2], m[3], m[4])
                        /\ board' = ApplyMove(b, m[1], m[2], m[3], m[4])
                        /\ moveCount' = moveCount + 1
                        /\ currentPlayer' = "white"
                  \/ /\ \A m \in Moves :
                           BlackOrigin(b, m) => ~isValidMove(b, m[1], m[2], m[3], m[4])
                     /\ UNCHANGED <<board, moveCount, currentPlayer>>]_vars

\* The automated side has replied on RaidBoard with one of its moves
C1_Witness ==
    /\ commits = 1
    /\ games = 0
    /\ timers = <<>>
    /\ currentPlayer = "white"
    /\ moveCount = 2 * Len(RaidMoves) + 2
    /\ \E m \in Moves :
          /\ BlackOrigin(RaidBoard, m)
          /\ board = ApplyMove(RaidBoard, m[1], m[2], m[3], m[4])

\* C5: a committed move that overwrites a king ends the game, the human's
\* capture of the black king and the automated capture of the white king
\* alike: after it the human is not to move on the game screen.
C5_KingCaptureEndsGame ==
    [][(\/ \E row \in Idx, col \in Idx :
              /\ HandleSquareClick(row, col)
              /\ board' # board
              /\ board[row][col].type = "king"
        \/ \E i \in 1..Len(timers) :
              /\ Len(timers') = Len(timers) - 1
              /\ AICallback(i)
              /\ KingCount(board', "white") < KingCount(timers[i].board, "white"))
       => ~(screen' = "game" /\ currentPlayer' = "white")]_vars

\* C6: while an automated turn is pending, a click on a square changes none
\* of board, selectedSquare, currentPlayer and moveCount.
C6_ClicksRejectedDuringAITurn ==
    [][(AITurnPending /\ ClickSquare)
       => UNCHANGED <<board, selectedSquare, currentPlayer, moveCount>>]_vars

\* C7: the game never rests on the game screen with black to move, thinking
\* false and no callback pending.
C7_NoMoveIsTerminal ==
    ~(screen = "game" /\ currentPlayer = "black" /\ ~thinking /\ timers = <<>>)

\* C8: an automated turn that has set thinking completes: thinking becomes
\* false again, in a step that either commits one move and passes the turn to
\* white or leaves board, moveCount and currentPlayer as they were.
C8_AITurnCompletes ==
    /\ thinking ~> ~thinking
    /\ [][(thinking /\ ~thinking') =>
            \/ moveCount' = moveCount + 1 /\ currentPlayer' = "white"
            \/ UNCHANGED <<board, moveCount, currentPlayer>>]_vars

\* makeAIMove has run and its callback is pending
C8_Witness ==
    /\ thinking
    /\ \E i \in 1..Len(timers) : timers[i].kind = "aiCallback"

\* The callback of makeAIMove is the step taken
AIReplyCommitted ==
    \E i \in 1..Len(timers) : Len(timers') = Len(timers) - 1 /\ AICallback(i)

\* C13: in a game with no new game started since the position was set up,
\* the board committed by the callback of makeAIMove is the board committed
\* by the preceding handleSquareClick, which is the current board, with one
\* black piece relocated.
C13_ReplyBuildsOnHumanMove ==
    [][(games = 0 /\ AIReplyCommitted /\ board' # board) =>
          \E m \in Moves :
             /\ BlackOrigin(board, m)
             /\ board' = ApplyMove(board, m[1], m[2], m[3], m[4])]_vars

\* A new game has started and the human has not committed a move in it
FreshGame ==
    /\ games > 0
    /\ board = initialBoard
    /\ currentPlayer = "white"
    /\ moveCount = 0

\* C14: in a new game in which the human has not yet committed a move, a
\* timer callback left over from the previous game changes none of board,
\* currentPlayer and moveCount.
C14_LeftoverCallbackWritesNothing ==
    [][(FreshGame /\ TimerFires) =>
          UNCHANGED <<board, currentPlayer, moveCount>>]_vars

\* C15: a selected square holds a white piece on the current board.
C15_SelectionIsWhite ==
    selectedSquare # NoSquare => At(board, selectedSquare).color = "white"

\* The human has captured the black king and the callback that records the
\* win is pending
WinPending == \E i \in 1..Len(timers) : timers[i].kind = "win"

\* C16: a game in which the human captured the black king adds no loss: with
\* no new game started, no step taken while the win is pending changes the
\* count of losses.
C16_OneOutcomePerGame ==
    [][(games = 0 /\ WinPending) => stats'.losses = stats.losses]_vars

====
